---- MODULE Spec2Model ----
(***************************************************************************)
(* Temporal query resolution (QueryProcessor), snapshot discovery, content *)
(* fetch and link construction (WaybackClient) and the retry wrapper        *)
(* (retry_with_exponential_backoff) of the Wayback e-commerce chatbot.      *)
(*                                                                          *)
(* Dates are records [y, m, d] of the proleptic Gregorian calendar, as      *)
(* datetime.date; NoDate stands for Python's None.  A Python call either    *)
(* returns a value or raises: date-valued results are records               *)
(* [exc, date] with exc = "" when the call returned.                        *)
(***************************************************************************)
EXTENDS Integers, Sequences, FiniteSets, TLC

VARIABLES
    \* ---- QueryProcessor.process_query ----
    qpc,        \* "idle" before the call, "done" after it
    today,      \* datetime.date.today() during the call
    query,      \* the query text, as its sequence of phrases
    custom,     \* the custom_date argument (NoDate = not given)
    llm,        \* what the Gemini call answers (NoCall when it is not called)
    qres,       \* what process_query returned or raised
    \* ---- the submit handler of main: find_snapshot_for_date, then the fetch ----
    fpc,        \* position of the handler
    site_url,   \* query_info["domain"], the site_url argument ("None" when absent)
    target,     \* target_date
    maxOff,     \* max_offset
    fcache,     \* the cache file of this find call: "none", "absent", "stale", "partial"
    content_cache, \* the cache file of the get_snapshot_content call of the handler
    offsets,    \* the local list `offsets`
    idx,        \* number of offsets the for loop has consumed
    probes,     \* the index queries issued so far
    fres,       \* what find_snapshot_for_date returned
    fetches,    \* the calls of get_snapshot_content, with their outcome
    \* ---- WaybackClient.get_wayback_url ----
    lpc,        \* "idle" while the client is in use ("off" otherwise)
    client,     \* the attributes of the client: cache_enabled, max_retries
    capture_id, \* the timestamp argument
    source_url, \* the original_url argument, as the sequence of its pieces
    links,      \* the links returned so far
    \* ---- retry_with_exponential_backoff: one call of a wrapped operation ----
    rpc,        \* "calling" inside the loop, "returned" or "raised" after it
    retry_limit,\* the max_retries argument of the decorator
    jitter,     \* the jitter argument of the decorator
    num_retries,\* the local num_retries
    delay,      \* the local delay, in units of 0.1 ms
    calls,      \* the outcome of every invocation of the operation so far
    sleeps,     \* the arguments of time.sleep so far, in units of 0.1 ms
    rexc,       \* the error the wrapper raised ("" when none)
    \* ---- cache_result: the calls of one memoized operation with one key ----
    mpc,        \* "idle" while the operation is in use ("off" otherwise)
    wrapped,    \* the name of the decorated operation
    clock,      \* datetime.datetime.now(), in hours since the first call
    cache_file, \* the file <key>.json of the cache directory
    memo_calls  \* every call made so far, with what the wrapper did

qvars == <<qpc, today, query, custom, llm, qres>>
fvars == <<fpc, site_url, target, maxOff, fcache, content_cache, offsets, idx, probes, fres, fetches>>
lvars == <<lpc, client, capture_id, source_url, links>>
rvars == <<rpc, retry_limit, jitter, num_retries, delay, calls, sleeps, rexc>>
cvars == <<mpc, wrapped, clock, cache_file, memo_calls>>
vars == <<qpc, today, query, custom, llm, qres,
          fpc, site_url, target, maxOff, fcache, content_cache, offsets, idx, probes,
          fres, fetches,
          lpc, client, capture_id, source_url, links,
          rpc, retry_limit, jitter, num_retries, delay, calls, sleeps, rexc,
          mpc, wrapped, clock, cache_file, memo_calls>>

-----------------------------------------------------------------------------
(* datetime.date                                                            *)

NoDate == [y |-> 0, m |-> 0, d |-> 0]
MkDate(y, m, d) == [y |-> y, m |-> m, d |-> d]

Abs(x) == IF x < 0 THEN -x ELSE x
Sign(x) == IF x < 0 THEN -1 ELSE 1
Min(a, b) == IF a < b THEN a ELSE b

IsLeap(y) == (y % 4 = 0) /\ ((y % 100 # 0) \/ (y % 400 = 0))

DaysInMonth(y, m) ==
    IF m = 2 THEN (IF IsLeap(y) THEN 29 ELSE 28)
    ELSE IF m \in {4, 6, 9, 11} THEN 30 ELSE 31

DaysBeforeYear(y) ==
    LET p == y - 1 IN p * 365 + (p \div 4) - (p \div 100) + (p \div 400)

RECURSIVE DaysBeforeMonth(_, _)
DaysBeforeMonth(y, m) ==
    IF m <= 1 THEN 0 ELSE DaysBeforeMonth(y, m - 1) + DaysInMonth(y, m - 1)

\* date.toordinal(): 0001-01-01 is day 1
ToOrdinal(dt) == DaysBeforeYear(dt.y) + DaysBeforeMonth(dt.y, dt.m) + dt.d

\* the month and day of the n-th day (from 0) of year y
RECURSIVE MonthDayOf(_, _, _)
MonthDayOf(y, m, n) ==
    IF n < DaysInMonth(y, m) THEN MkDate(y, m, n + 1)
    ELSE MonthDayOf(y, m + 1, n - DaysInMonth(y, m))

\* date.fromordinal(n), by the 400/100/4/1-year cycles of the calendar
FromOrdinal(n) ==
    LET n0   == n - 1
        n400 == n0 \div 146097
        r400 == n0 % 146097
        n100 == r400 \div 36524
        r100 == r400 % 36524
        n4   == r100 \div 1461
        r4   == r100 % 1461
        n1   == r4 \div 365
        r1   == r4 % 365
        year == n400 * 400 + 1 + n100 * 100 + n4 * 4 + n1
    IN  IF n1 = 4 \/ n100 = 4 THEN MkDate(year - 1, 12, 31)
        ELSE MonthDayOf(year, 1, r1)

IsValidDate(y, m, d) ==
    /\ y \in 1..9999                      \* datetime.MINYEAR..MAXYEAR
    /\ m \in 1..12
    /\ d >= 1 /\ d <= DaysInMonth(y, m)

\* d1 < d2 on dates
DateLess(d1, d2) ==
    \/ d1.y < d2.y
    \/ d1.y = d2.y /\ d1.m < d2.m
    \/ d1.y = d2.y /\ d1.m = d2.m /\ d1.d < d2.d

\* a returned date / a raised exception
Ok(dt) == [exc |-> "", date |-> dt]
Raise(e) == [exc |-> e, date |-> NoDate]

\* date + datetime.timedelta(days=k): timedelta holds at most 999999999 days,
\* date.max (9999-12-31) is day 3652059
AddDays(dt, k) ==
    IF Abs(k) > 999999999 THEN Raise("OverflowError")
    ELSE LET n == ToOrdinal(dt) + k
         IN  IF n < 1 \/ n > 3652059 THEN Raise("OverflowError")
             ELSE Ok(FromOrdinal(n))

\* date.strftime("%Y%m%d"), as the number its digits spell
StrfYmd(dt) == dt.y * 10000 + dt.m * 100 + dt.d

-----------------------------------------------------------------------------
(* dateutil.relativedelta: relative fields years, months, days and          *)
(* absolute fields year, month, day (0 = None)                              *)

\* relativedelta._fix / _set_months: months beyond 11 carry into years
RdFix(years, months, days, year, month, day) ==
    IF Abs(months) > 11
    THEN LET s == Sign(months)
             q == (months * s) \div 12
             r == (months * s) % 12
         IN  [years |-> years + q * s, months |-> r * s, days |-> days,
              year |-> year, month |-> month, day |-> day]
    ELSE [years |-> years, months |-> months, days |-> days,
          year |-> year, month |-> month, day |-> day]

\* relativedelta(years=, months=, weeks=, days=)
RdRel(years, months, weeks, days) == RdFix(years, months, days + weeks * 7, 0, 0, 0)

\* relativedelta(year=, month=, day=)
RdAbs(year, month, day) == RdFix(0, 0, 0, year, month, day)

\* relativedelta.__neg__
RdNeg(rd) == RdFix(-rd.years, -rd.months, -rd.days, rd.year, rd.month, rd.day)

\* relativedelta.__add__(date) (= __radd__): date + relativedelta
DateAddRd(dt, rd) ==
    LET y0 == (IF rd.year # 0 THEN rd.year ELSE dt.y) + rd.years
        m0 == (IF rd.month # 0 THEN rd.month ELSE dt.m) + rd.months
        y1 == IF rd.months # 0 /\ m0 > 12 THEN y0 + 1
              ELSE IF rd.months # 0 /\ m0 < 1 THEN y0 - 1 ELSE y0
        m1 == IF rd.months # 0 /\ m0 > 12 THEN m0 - 12
              ELSE IF rd.months # 0 /\ m0 < 1 THEN m0 + 12 ELSE m0
        d1 == Min(DaysInMonth(y1, m1), IF rd.day # 0 THEN rd.day ELSE dt.d)
    IN  IF y1 < 1 \/ y1 > 9999 THEN Raise("ValueError")   \* date.replace(year=)
        ELSE AddDays(MkDate(y1, m1, d1), rd.days)

\* date - relativedelta: relativedelta.__rsub__
DateSubRd(dt, rd) == DateAddRd(dt, RdNeg(rd))

\* relativedelta(dt1, dt2): the months between the two dates, stepped back
\* while dt2 + months overshoots dt1, then the remaining days
RECURSIVE RdMonthsBetween(_, _, _)
RdMonthsBetween(dt1, dt2, months) ==
    LET dtm == DateAddRd(dt2, RdFix(0, months, 0, 0, 0, 0)).date
    IN  IF DateLess(dt1, dt2)
        THEN (IF DateLess(dtm, dt1) THEN RdMonthsBetween(dt1, dt2, months + 1) ELSE months)
        ELSE (IF DateLess(dt1, dtm) THEN RdMonthsBetween(dt1, dt2, months - 1) ELSE months)

RdBetween(dt1, dt2) ==
    LET months == RdMonthsBetween(dt1, dt2, (dt1.y - dt2.y) * 12 + (dt1.m - dt2.m))
        dtm == DateAddRd(dt2, RdFix(0, months, 0, 0, 0, 0)).date
    IN  RdFix(0, months, ToOrdinal(dt1) - ToOrdinal(dtm), 0, 0, 0)

-----------------------------------------------------------------------------
(* Query text.  A query is the sequence of its phrases, each a record       *)
(* [k, w, n]:  k = "last": the text "last <w>";  k = "ago": the text        *)
(* "<n> <w>s ago";  k = "iso": the text of the digits n as YYYY-MM-DD;      *)
(* k = "host": the host-name token w;  k = "word": the plain word w.        *)

Last(w) == [k |-> "last", w |-> w, n |-> 0]
Ago(n, w) == [k |-> "ago", w |-> w, n |-> n]
Iso(n) == [k |-> "iso", w |-> "", n |-> n]
Host(w) == [k |-> "host", w |-> w, n |-> 0]
Word(w) == [k |-> "word", w |-> w, n |-> 0]

\* _last_month_of_name: month_names
month_names ==
    <<"january", "february", "march", "april", "may", "june",
      "july", "august", "september", "october", "november", "december">>

MonthNameSet == {month_names[i] : i \in 1..12}
SeasonNameSet == {"spring", "summer", "fall", "autumn", "winter"}
HolidayNameSet == {"black friday", "cyber monday", "christmas", "easter",
                   "valentine", "halloween"}
Units == {"year", "month", "week", "day"}

\* list.index(x) + 1
IndexOf(seq, x) == CHOOSE i \in 1..Len(seq) : seq[i] = x

\* a table that lists the named periods ahead of the fixed phrases
time_patternsNamedFirst ==
    <<"last holiday", "last season", "last monthname",
      "years ago", "months ago", "weeks ago", "days ago",
      "last year", "last month", "last week">>

\* the keys of self.time_patterns, in insertion order
time_patterns ==
    <<"last year", "last month", "last week",
      "years ago", "months ago", "weeks ago", "days ago",
      "last monthname", "last season", "last holiday">>

\* whether the regular expression `pat` matches the text of phrase ph
PhraseMatches(pat, ph) ==
    CASE pat = "last year"      -> ph.k = "last" /\ ph.w = "year"
      [] pat = "last month"     -> ph.k = "last" /\ ph.w = "month"
      [] pat = "last week"      -> ph.k = "last" /\ ph.w = "week"
      [] pat = "years ago"      -> ph.k = "ago" /\ ph.w = "year"
      [] pat = "months ago"     -> ph.k = "ago" /\ ph.w = "month"
      [] pat = "weeks ago"      -> ph.k = "ago" /\ ph.w = "week"
      [] pat = "days ago"       -> ph.k = "ago" /\ ph.w = "day"
      [] pat = "last monthname" -> ph.k = "last" /\ ph.w \in MonthNameSet
      [] pat = "last season"    -> ph.k = "last" /\ ph.w \in SeasonNameSet
      [] pat = "last holiday"   -> ph.k = "last" /\ ph.w \in HolidayNameSet
      [] OTHER -> FALSE

\* re.search(pat, text): the position of the leftmost match, 0 when none
ReSearch(pat, text) ==
    IF \E i \in 1..Len(text) : PhraseMatches(pat, text[i])
    THEN CHOOSE i \in 1..Len(text) :
            /\ PhraseMatches(pat, text[i])
            /\ \A j \in 1..(i - 1) : ~PhraseMatches(pat, text[j])
    ELSE 0

-----------------------------------------------------------------------------
(* QueryProcessor: the delta functions.  Each returns [exc, rd]: the        *)
(* relativedelta it computed, or the exception it raised.                   *)

NoRd == RdFix(0, 0, 0, 0, 0, 0)
RdOk(rd) == [exc |-> "", rd |-> rd]
RdRaise(e) == [exc |-> e, rd |-> NoRd]

\* relativedelta(...) - datetime.date: relativedelta.__sub__ answers
\* NotImplemented for a date and date has no reflected subtraction for it
RdSubDate(rd, dt) == RdRaise("TypeError")

_last_month_of_name(month_name, now) ==
    LET target_month == IndexOf(month_names, month_name)
        current_month == now.m
    IN  IF current_month > target_month
        THEN RdSubDate(RdAbs(now.y, target_month, 15), now)
        ELSE RdSubDate(RdAbs(now.y - 1, target_month, 15), now)

\* _last_season: seasons[name] = (start_month, end_month)
SeasonStart(name) ==
    CASE name = "spring" -> 3 [] name = "summer" -> 6 [] name = "fall" -> 9
      [] name = "autumn" -> 9 [] name = "winter" -> 12
SeasonEnd(name) ==
    CASE name = "spring" -> 5 [] name = "summer" -> 8 [] name = "fall" -> 11
      [] name = "autumn" -> 11 [] name = "winter" -> 2

_last_season(season_name, now) ==
    LET start_month == SeasonStart(season_name)
        end_month == SeasonEnd(season_name)
        current_month == now.m
    IN  IF season_name = "winter"
        THEN (IF current_month \in {12, 1, 2}
              THEN RdOk(RdRel(1, 0, 0, 0))
              ELSE RdSubDate(RdAbs(now.y, 1, 15), now))
        ELSE IF current_month > end_month
        THEN RdSubDate(RdAbs(now.y, start_month, 15), now)
        ELSE RdSubDate(RdAbs(now.y - 1, start_month, 15), now)

\* _last_holiday: holidays[name] = (month, day)
HolidayMonth(name) ==
    CASE name = "black friday" -> 11 [] name = "cyber monday" -> 11
      [] name = "christmas" -> 12 [] name = "valentine" -> 2
      [] name = "halloween" -> 10
HolidayDay(name) ==
    CASE name = "black friday" -> 25 [] name = "cyber monday" -> 28
      [] name = "christmas" -> 25 [] name = "valentine" -> 14
      [] name = "halloween" -> 31

_last_holiday(holiday_name, now) ==
    IF holiday_name = "easter"
    THEN _last_month_of_name("april", now)
    ELSE LET month == HolidayMonth(holiday_name)
             day == HolidayDay(holiday_name)
             this_year_holiday == MkDate(now.y, month, day)
             holiday_date == IF DateLess(now, this_year_holiday)
                             THEN MkDate(now.y - 1, month, day)
                             ELSE this_year_holiday
         IN  RdOk(RdBetween(now, holiday_date))

\* the value of self.time_patterns[pat], applied to the match ph when callable
DeltaFunc(pat, ph, now) ==
    CASE pat = "last year"      -> RdOk(RdRel(1, 0, 0, 0))
      [] pat = "last month"     -> RdOk(RdRel(0, 1, 0, 0))
      [] pat = "last week"      -> RdOk(RdRel(0, 0, 1, 0))
      [] pat = "years ago"      -> RdOk(RdRel(ph.n, 0, 0, 0))
      [] pat = "months ago"     -> RdOk(RdRel(0, ph.n, 0, 0))
      [] pat = "weeks ago"      -> RdOk(RdRel(0, 0, ph.n, 0))
      [] pat = "days ago"       -> RdOk(RdRel(0, 0, 0, ph.n))
      [] pat = "last monthname" -> _last_month_of_name(ph.w, now)
      [] pat = "last season"    -> _last_season(ph.w, now)
      [] pat = "last holiday"   -> _last_holiday(ph.w, now)

-----------------------------------------------------------------------------
(* QueryProcessor._infer_date_with_llm.  The answer of the Gemini call is   *)
(* a record [kind, text]:                                                   *)
(*   "raise"     generate_content raises                                    *)
(*   "text"      response.text is `text`                                    *)
(*   "nocand"    response.text raises ValueError, no candidates             *)
(*   "safety"    ..., finish_reason is SAFETY                               *)
(*   "notstop"   ..., finish_reason is neither SAFETY nor STOP              *)
(*   "nocontent" ..., the candidate has no content parts                    *)
(*   "parts"     ..., the first part's text is `text`                       *)
(* NoCall marks a call of process_query that never reaches the model.       *)

Answer(kind, text) == [kind |-> kind, text |-> text]
NoCall == Answer("nocall", <<>>)

\* "ago" in date_text.lower()
ContainsAgo(text) ==
    \E i \in 1..Len(text) :
        text[i].k = "ago" \/ (text[i].k = "word" /\ text[i].w = "long ago")

\* re.search(r'(\d+)\s+(year|month|week|day)s?\s+ago', ...), 0 when none
AgoSearch(text) ==
    IF \E i \in 1..Len(text) : text[i].k = "ago"
    THEN CHOOSE i \in 1..Len(text) :
            text[i].k = "ago" /\ \A j \in 1..(i - 1) : text[j].k # "ago"
    ELSE 0

\* re.search(r'(\d{4}-\d{2}-\d{2})', date_text), 0 when none
IsoSearch(text) ==
    IF \E i \in 1..Len(text) : text[i].k = "iso"
    THEN CHOOSE i \in 1..Len(text) :
            text[i].k = "iso" /\ \A j \in 1..(i - 1) : text[j].k # "iso"
    ELSE 0

\* datetime.date.fromisoformat of the digits YYYY-MM-DD spelled by n
FromIsoFormat(n) ==
    LET y == n \div 10000
        m == (n \div 100) % 100
        d == n % 100
    IN  IF IsValidDate(y, m, d) THEN Ok(MkDate(y, m, d)) ELSE Raise("ValueError")

\* the relativedelta built from the unit and number of an "ago" phrase
UnitDelta(unit, num) ==
    CASE unit = "year"  -> RdRel(num, 0, 0, 0)
      [] unit = "month" -> RdRel(0, num, 0, 0)
      [] unit = "week"  -> RdRel(0, 0, num, 0)
      [] unit = "day"   -> RdRel(0, 0, 0, num)

\* a default of 365 days instead of one calendar year
DefaultDate365Days(now) == AddDays(now, -365)

\* the except branch: datetime.date.today() - relativedelta(years=1)
DefaultDate(now) == DateSubRd(now, RdRel(1, 0, 0, 0))

\* the body of the try block once date_text is known
ParseDateText(text, now) ==
    LET a == AgoSearch(text)
        i == IsoSearch(text)
    IN  IF ContainsAgo(text) /\ a # 0
        THEN DateSubRd(now, UnitDelta(text[a].w, text[a].n))
        ELSE IF i # 0 THEN FromIsoFormat(text[i].n)
        ELSE DateSubRd(now, RdRel(1, 0, 0, 0))

\* lines 117-187: whatever the try block raises ends in the default
_infer_date_with_llm(q, now, resp) ==
    IF resp.kind \in {"text", "parts"}
    THEN LET r == ParseDateText(resp.text, now)
         IN  IF r.exc = "" THEN r ELSE DefaultDate(now)
    ELSE DefaultDate(now)

-----------------------------------------------------------------------------
(* QueryProcessor.process_query                                             *)

\* the characters of the tokens and terms the model uses
Spell(w) ==
    CASE w = "promoting" -> <<"p", "r", "o", "m", "o", "t", "i", "n", "g">>
      [] w = "asos.com" -> <<"a", "s", "o", "s", ".", "c", "o", "m">>
      [] w = "v1.20.3" -> <<"v", "1", ".", "2", "0", ".", "3">>
      [] w = "Shipping" -> <<"S", "h", "i", "p", "p", "i", "n", "g">>
      [] w = "items" -> <<"i", "t", "e", "m", "s">>
      [] w = "salesforce.com" -> <<"s", "a", "l", "e", "s", "f", "o", "r", "c", "e", ".", "c", "o", "m">>
      [] w = "asos.c" -> <<"a", "s", "o", "s", ".", "c">>
      [] w = "SALE" -> <<"S", "A", "L", "E">>
      [] w = "promo" -> <<"p", "r", "o", "m", "o">>
      [] w = "promotion" -> <<"p", "r", "o", "m", "o", "t", "i", "o", "n">>
      [] w = "offer" -> <<"o", "f", "f", "e", "r">>
      [] w = "discount" -> <<"d", "i", "s", "c", "o", "u", "n", "t">>
      [] w = "sale" -> <<"s", "a", "l", "e">>
      [] w = "product" -> <<"p", "r", "o", "d", "u", "c", "t">>
      [] w = "range" -> <<"r", "a", "n", "g", "e">>
      [] w = "item" -> <<"i", "t", "e", "m">>
      [] w = "selling" -> <<"s", "e", "l", "l", "i", "n", "g">>
      [] w = "delivery" -> <<"d", "e", "l", "i", "v", "e", "r", "y">>
      [] w = "shipping" -> <<"s", "h", "i", "p", "p", "i", "n", "g">>
      [] w = "fulfillment" -> <<"f", "u", "l", "f", "i", "l", "l", "m", "e", "n", "t">>

\* str.lower(), for the capitals the tokens hold
LowerChar(c) ==
    CASE c = "S" -> "s" [] c = "A" -> "a" [] c = "L" -> "l" [] c = "E" -> "e"
      [] OTHER -> c
Lower(cs) == [i \in 1..Len(cs) |-> LowerChar(cs[i])]

\* the character classes of the host-name pattern
\* ([a-zA-Z0-9][-a-zA-Z0-9]*\.)+[a-zA-Z0-9]{2,}
CharClass(c) ==
    IF c = "." THEN "dot"
    ELSE IF c = "-" THEN "hyphen"
    ELSE IF c \in {"_", "@", "/", ":", "'", ","} THEN "other"
    ELSE "alnum"

\* the last position of the longest run of characters of `classes` that
\* starts at p (p - 1 when the run is empty)
RECURSIVE RunEnd(_, _, _)
RunEnd(cs, p, classes) ==
    IF p > Len(cs) \/ CharClass(cs[p]) \notin classes THEN p - 1
    ELSE RunEnd(cs, p + 1, classes)

\* [a-zA-Z0-9][-a-zA-Z0-9]*\. at p: the position of its dot, 0 when no match
LabelDot(cs, p) ==
    IF p > Len(cs) \/ CharClass(cs[p]) # "alnum" THEN 0
    ELSE LET e == RunEnd(cs, p, {"alnum", "hyphen"})
         IN  IF e < Len(cs) /\ CharClass(cs[e + 1]) = "dot" THEN e + 1 ELSE 0

\* the rest of the pattern at p, behind k labels: as many further labels as
\* lead to a match, then two or more letters or digits; the end of the match,
\* 0 when there is none
RECURSIVE MatchFrom(_, _, _)
MatchFrom(cs, p, k) ==
    LET d == LabelDot(cs, p)
        deeper == IF d # 0 THEN MatchFrom(cs, d + 1, k + 1) ELSE 0
        fin == RunEnd(cs, p, {"alnum"})
    IN  IF deeper # 0 THEN deeper
        ELSE IF k >= 1 /\ fin - p + 1 >= 2 THEN fin
        ELSE 0

\* the text of a sequence of characters
RECURSIVE Join(_)
Join(cs) == IF cs = <<>> THEN "" ELSE Head(cs) \o Join(Tail(cs))

\* re.search of the host-name pattern in one token: group(0) of the leftmost
\* match, "None" when the token holds none
HostIn(cs) ==
    IF \E st \in 1..Len(cs) : MatchFrom(cs, st, 0) # 0
    THEN LET st == CHOOSE st \in 1..Len(cs) :
                      /\ MatchFrom(cs, st, 0) # 0
                      /\ \A t \in 1..(st - 1) : MatchFrom(cs, t, 0) = 0
         IN  Join(SubSeq(cs, st, MatchFrom(cs, st, 0)))
    ELSE "None"

\* the characters of a phrase in which the pattern can match: time phrases
\* and dates hold no dot
TokenChars(ph) == IF ph.k \in {"host", "word"} THEN Spell(ph.w) ELSE <<>>

\* lines 56-59: the leftmost match in the query, "None" when there is none
ExtractDomain(q) ==
    IF \E i \in 1..Len(q) : HostIn(TokenChars(q[i])) # "None"
    THEN LET i == CHOOSE i \in 1..Len(q) :
                     /\ HostIn(TokenChars(q[i])) # "None"
                     /\ \A j \in 1..(i - 1) : HostIn(TokenChars(q[j])) = "None"
         IN  HostIn(TokenChars(q[i]))
    ELSE "None"

\* term in query.lower(): the term stands somewhere in a token
Contains(cs, term) ==
    \E i \in 0..(Len(cs) - Len(term)) : SubSeq(cs, i + 1, i + Len(term)) = term
QueryContains(q, w) ==
    \E i \in 1..Len(q) : Contains(Lower(TokenChars(q[i])), Spell(w))

\* lines 62, 64, 66: the keyword lists
PromotionTerms == {"promo", "promotion", "offer", "discount", "sale"}
ProductTerms == {"product", "range", "item", "selling"}
DeliveryTerms == {"delivery", "shipping", "fulfillment"}
AnyTerm(q, terms) == \E w \in terms : QueryContains(q, w)

\* a classifier that looks for product terms first
FocusProductsFirst(q) ==
    IF AnyTerm(q, ProductTerms) THEN "products"
    ELSE IF AnyTerm(q, PromotionTerms) THEN "promotions"
    ELSE IF AnyTerm(q, DeliveryTerms) THEN "delivery"
    ELSE "None"

\* lines 61-67
Focus(q) ==
    IF AnyTerm(q, PromotionTerms) THEN "promotions"
    ELSE IF AnyTerm(q, ProductTerms) THEN "products"
    ELSE IF AnyTerm(q, DeliveryTerms) THEN "delivery"
    ELSE "None"

\* the position in time_patterns of the first pattern that matches, 0 when none
RECURSIVE FirstPattern(_, _)
FirstPattern(q, p) ==
    IF p > Len(time_patterns) THEN 0
    ELSE IF ReSearch(time_patterns[p], q) # 0 THEN p
    ELSE FirstPattern(q, p + 1)

\* what process_query returned or raised; inferred tells whether
\* _infer_date_with_llm was called
QResult(exc, domain, focus, dt, inferred) ==
    [exc |-> exc, domain |-> domain, focus |-> focus, target_date |-> dt,
     inferred |-> inferred]

\* lines 74-86: the date of the first matching pattern
PatternDate(q, now, p) ==
    LET pat == time_patterns[p]
        ph == q[ReSearch(pat, q)]
        delta == DeltaFunc(pat, ph, now)
    IN  IF delta.exc # "" THEN Raise(delta.exc)
        ELSE DateSubRd(now, delta.rd)

process_query(q, now, custom_date, resp) ==
    LET domain == ExtractDomain(q)
        focus == Focus(q)
        p == FirstPattern(q, 1)
    IN  IF custom_date # NoDate THEN QResult("", domain, focus, custom_date, FALSE)
        ELSE IF p # 0
        THEN LET r == PatternDate(q, now, p)
             IN  QResult(r.exc, domain, focus, r.date, FALSE)
        ELSE LET r == _infer_date_with_llm(q, now, resp)
             IN  QResult(r.exc, domain, focus, r.date, TRUE)

-----------------------------------------------------------------------------
(* Inputs of process_query                                                  *)

\* the largest of the small counts N of "N <unit>s ago"
MaxSmallCount == 2

TodayYears == {2023, 2024}
TodayDays == {1, 14, 15, 25, 28, 29, 30, 31}
Todays ==
    {dt \in [y : TodayYears, m : 1..12, d : TodayDays] : IsValidDate(dt.y, dt.m, dt.d)}

\* small counts, a count that carries months into years, and a count that
\* leaves the calendar in every unit
AgoCounts == (0..MaxSmallCount) \cup {13, 1000000}

TimePhrases ==
    {Last(w) : w \in {"year", "month", "week"} \cup MonthNameSet
                     \cup SeasonNameSet \cup HolidayNameSet}
    \cup {Ago(n, u) : n \in AgoCounts, u \in Units}
\* tokens: words with and without keywords, host names, and tokens that only
\* hold a piece of host-name shape or none
OtherPhrases ==
    {Word("promoting"), Host("asos.com"), Word("v1.20.3"), Word("Shipping"), Word("items")}
SingleOnlyPhrases == {Host("salesforce.com"), Word("asos.c"), Word("SALE")}
Phrases == TimePhrases \cup OtherPhrases \cup SingleOnlyPhrases

\* one phrase of every pattern class, for the queries of two phrases
PairPhrases ==
    {Last("year"), Last("week"), Ago(1, "month"), Ago(2, "day"), Last("april"),
     Last("winter"), Last("christmas")} \cup OtherPhrases

Queries ==
    {<<>>} \cup {<<p>> : p \in Phrases}
    \cup {<<p, r>> : p \in PairPhrases, r \in PairPhrases}

\* response texts of the model
AnswerTexts ==
    {<<>>, <<Word("unknown")>>, <<Ago(1, "year")>>, <<Ago(3, "month")>>,
     <<Ago(2, "week")>>, <<Ago(10, "day")>>, <<Ago(1000000, "year")>>,
     <<Last("month")>>, <<Last("week")>>, <<Iso(20231124)>>, <<Iso(20231345)>>,
     <<Word("long ago"), Iso(20240229)>>}
FailKinds == {"raise", "nocand", "safety", "notstop", "nocontent"}
Answers ==
    {Answer(k, <<>>) : k \in FailKinds}
    \cup {Answer(k, t) : k \in {"text", "parts"}, t \in AnswerTexts}

\* the answers tried with the queries of two phrases
PairAnswers ==
    {Answer(k, <<>>) : k \in FailKinds}
    \cup {Answer("text", <<Ago(3, "month")>>), Answer("parts", <<Last("month")>>)}

CustomSample == MkDate(2022, 6, 1)

\* the calls: every query and date without custom_date, the one-phrase
\* queries also with it; the model answers only when it is asked
QueryCalls ==
    {c \in [q : Queries, now : Todays, custom : {NoDate, CustomSample}, resp : Answers \cup {NoCall}] :
        /\ c.custom # NoDate => Len(c.q) <= 1
        /\ (c.resp = NoCall) <=> (c.custom # NoDate \/ FirstPattern(c.q, 1) # 0)
        /\ (Len(c.q) = 2 /\ c.resp # NoCall) => c.resp \in PairAnswers}

-----------------------------------------------------------------------------
(* The resolver as a state machine: a call is set up, then runs.            *)

\* Values a memoized operation returns, as json sees them: the type of the
\* value, its text, and for a tuple or a list its items.
Scalar(type, text) == [type |-> type, text |-> text, items |-> <<>>]
PyNone == Scalar("NoneType", "None")
Str(text) == Scalar("str", text)
Date(text) == Scalar("date", text)
Tuple(items) == [type |-> "tuple", text |-> "", items |-> items]
\* an invocation that raised instead of returning
Raised(exc) == Scalar("raised", exc)

\* the cache directory holds no file for the key
NoFile == [state |-> "none", timestamp |-> 0, result |-> PyNone]

\* cache_result, cache.py lines 48-117, in its parts.  Time is in hours.

\* the expire_after_days the decorators pass
ExpireAfterDays(op) ==
    CASE op = "find_snapshot_for_date" -> 90
      [] op = "get_snapshot_content" -> 90
      [] op = "analyze_content" -> 7

\* json.dump writes None and str, and lists and tuples of them; a
\* datetime.date makes it raise TypeError
JsonScalar(v) == v.type \in {"NoneType", "str"}
JsonSerialisable(v) ==
    \/ JsonScalar(v)
    \/ /\ v.type \in {"tuple", "list"}
       /\ \A k \in 1..Len(v.items) : JsonScalar(v.items[k])

\* json.load of what json.dump wrote: a tuple comes back as a list
JsonRoundTrip(v) == IF v.type = "tuple" THEN [v EXCEPT !.type = "list"] ELSE v

\* lines 102-113: the file is opened for writing and json.dump fills it; when
\* json.dump raises, the except clause leaves the text written so far
StoreResult(result, current_time) ==
    IF JsonSerialisable(result)
    THEN [state |-> "entry", timestamp |-> current_time,
          result |-> JsonRoundTrip(result)]
    ELSE [state |-> "partial", timestamp |-> current_time, result |-> PyNone]

\* line 88: (current_time - cached_time).days
AgeDays(cached_time, current_time) == (current_time - cached_time) \div 24

\* an entry that stops being served a day early
CacheFreshOneDayLess(cached_time, current_time, expire_after_days) ==
    AgeDays(cached_time, current_time) + 1 < expire_after_days

\* line 88: if (current_time - cached_time).days < expire_after_days
CacheFresh(cached_time, current_time, expire_after_days) ==
    AgeDays(cached_time, current_time) < expire_after_days

\* lines 81-96: the file exists, json.load reads it, and the entry is fresh;
\* a file json.load cannot read counts as a miss (JSONDecodeError is caught)
CacheHit(file, current_time, expire_after_days) ==
    /\ file.state = "entry"
    /\ CacheFresh(file.timestamp, current_time, expire_after_days)

NoResult == QResult("", "None", "None", NoDate, FALSE)
NoFind == [timestamp |-> "None", original_url |-> <<>>, found_date |-> NoDate]

FindIdle ==
    /\ fpc = "off" /\ site_url = "None" /\ target = NoDate /\ maxOff = 0
    /\ fcache = "none" /\ content_cache = NoFile
    /\ offsets = <<>> /\ idx = 0 /\ probes = <<>>
    /\ fres = NoFind /\ fetches = <<>>

QueryIdle ==
    /\ qpc = "off" /\ today = NoDate /\ query = <<>> /\ custom = NoDate
    /\ llm = NoCall /\ qres = NoResult

\* WaybackClient.__init__: the attributes of a client made without arguments
Client(cache_enabled, max_retries) ==
    [cache_enabled |-> cache_enabled, max_retries |-> max_retries]
DefaultClient == Client(TRUE, 3)

LinkIdle ==
    /\ lpc = "off" /\ client = DefaultClient
    /\ capture_id = "" /\ source_url = <<>> /\ links = <<>>

RetryIdle ==
    /\ rpc = "off" /\ retry_limit = 0 /\ jitter = FALSE /\ num_retries = 0
    /\ delay = 0 /\ calls = <<>> /\ sleeps = <<>> /\ rexc = ""

CacheIdle ==
    /\ mpc = "off" /\ wrapped = "" /\ clock = 0
    /\ cache_file = NoFile /\ memo_calls = <<>>

InitQuery ==
    /\ qpc = "idle"
    /\ \E c \in QueryCalls :
        /\ today = c.now /\ query = c.q /\ custom = c.custom /\ llm = c.resp
    /\ qres = NoResult
    /\ FindIdle
    /\ LinkIdle
    /\ RetryIdle
    /\ CacheIdle

ProcessQuery ==
    /\ qpc = "idle"
    /\ qres' = process_query(query, today, custom, llm)
    /\ qpc' = "done"
    /\ UNCHANGED <<today, query, custom, llm>>
    /\ UNCHANGED fvars
    /\ UNCHANGED lvars
    /\ UNCHANGED rvars
    /\ UNCHANGED cvars

NextQuery == ProcessQuery

SpecQuery == InitQuery /\ [][NextQuery]_vars

-----------------------------------------------------------------------------
(* WaybackClient.find_snapshot_for_date                                     *)

\* lines 47-50: offsets = [0], then i and -i for i in range(1, max_offset + 1)
RECURSIVE AppendOffsets(_, _, _)
AppendOffsets(acc, i, max_offset) ==
    IF i > max_offset THEN acc
    ELSE AppendOffsets(acc \o <<i, -i>>, i + 1, max_offset)

\* list.sort(key=abs) is stable: x goes behind every element whose key is
\* not larger
RECURSIVE InsertByAbs(_, _)
InsertByAbs(sorted, x) ==
    IF sorted = <<>> THEN <<x>>
    ELSE IF Abs(Head(sorted)) <= Abs(x)
    THEN <<Head(sorted)>> \o InsertByAbs(Tail(sorted), x)
    ELSE <<x>> \o sorted

RECURSIVE SortByAbs(_)
SortByAbs(seq) ==
    IF seq = <<>> THEN <<>>
    ELSE InsertByAbs(SortByAbs(SubSeq(seq, 1, Len(seq) - 1)), seq[Len(seq)])

\* a list that takes -i before i
RECURSIVE AppendOffsetsBackFirst(_, _, _)
AppendOffsetsBackFirst(acc, i, max_offset) ==
    IF i > max_offset THEN acc
    ELSE AppendOffsetsBackFirst(acc \o <<-i, i>>, i + 1, max_offset)

BuildOffsetsBackFirst(max_offset) ==
    SortByAbs(AppendOffsetsBackFirst(<<0>>, 1, max_offset))

\* a list that reaches one day beyond max_offset
BuildOffsetsOneMore(max_offset) == SortByAbs(AppendOffsets(<<0>>, 1, max_offset + 1))

\* lines 47-51
BuildOffsets(max_offset) == SortByAbs(AppendOffsets(<<0>>, 1, max_offset))

\* the returned tuple; timestamp "None" and original_url <<>> stand for None
FindResult(timestamp, original_url, found_date) ==
    [timestamp |-> timestamp, original_url |-> original_url, found_date |-> found_date]

\* data[1] of a CDX answer with a row: the capture of `site` on the queried
\* day, identified by the day's digits.  A URL is the sequence of its
\* pieces: the reserved characters one by one, every run of letters, digits
\* and "_.-~" as one piece.
CaptureStamp(stamp) == ToString(stamp)
CaptureUrl(site) == <<"http", ":", "/", "/", site, "/">>

(* What the archive index answers to one query:                             *)
(*   "hit"     status 200, a row after the header row                       *)
(*   "empty"   status 200, no row                                           *)
(*   "status"  a status code other than 200                                 *)
(*   "badjson" status 200, a body the code cannot decode or unpack          *)
(*   "exc"     requests.get raises                                          *)
(* `has` tells whether the index holds a status-200 capture of that day;    *)
(* an index that answers 200 tells the truth about it.                      *)
IndexAnswer(kind, has) == [kind |-> kind, has |-> has]
IndexAnswers ==
    {IndexAnswer("hit", TRUE), IndexAnswer("empty", FALSE)}
    \cup {IndexAnswer(k, h) : k \in {"status", "badjson", "exc"}, h \in BOOLEAN}

IsFailure(kind) == kind \in {"status", "badjson", "exc"}

\* a loop that lets the exception of a query leave the body
AfterAnswerRaising(kind) ==
    IF kind = "hit" THEN "return" ELSE IF kind = "exc" THEN "raise" ELSE "next"

\* lines 67-79: after a hit the body returns the capture; after every other
\* answer, an exception included, the loop goes on to the next offset
AfterAnswer(kind) == IF kind = "hit" THEN "return" ELSE "next"

\* lines 62-65: time.sleep(0.5) follows requests.get inside the try block
SleptAfter(kind) == kind # "exc"

\* one index query as the log keeps it
ProbeRecord(test_date, ans) ==
    [date |-> test_date, stamp |-> StrfYmd(test_date), answer |-> ans.kind,
     has |-> ans.has, slept |-> SleptAfter(ans.kind)]

NumFailures(log) == Cardinality({i \in 1..Len(log) : IsFailure(log[i].answer)})

\* the archive has been unreachable for the whole search: every request raised
Outage(log) == \A i \in 1..Len(log) : log[i].answer = "exc" /\ ~log[i].has

\* cache_result, lines 101-113: json.dump of a tuple holding a date raises
\* TypeError after the file was opened for writing; the absent tuple is stored
CacheAfterStore(result) == IF result.found_date # NoDate THEN "partial" ELSE "absent"

\* cache_result, lines 81-96: only a readable, unexpired entry is served
CacheServes(entry) == entry = "absent"

-----------------------------------------------------------------------------
(* urllib.parse.quote(string, safe=''): letters, digits and "_.-~" are kept, *)
(* every other character becomes its percent escape.                        *)

\* the escape of one piece of a URL
QuotePiece(c) ==
    CASE c = ":" -> "%3A" [] c = "/" -> "%2F" [] c = "?" -> "%3F"
      [] c = "=" -> "%3D" [] c = "&" -> "%26" [] c = " " -> "%20"
      [] c = "%" -> "%25" [] c = "#" -> "%23"
      [] OTHER -> c

\* a quote that keeps "/", as the default safe='/' does
QuoteKeepSlash(url) == [i \in 1..Len(url) |-> IF url[i] = "/" THEN "/" ELSE QuotePiece(url[i])]

Quote(url) == [i \in 1..Len(url) |-> QuotePiece(url[i])]

-----------------------------------------------------------------------------
(* WaybackClient.get_snapshot_content, lines 97-120.  The archive answers   *)
(* [kind, status, len, marker]: kind "exc" when requests.get raises; len    *)
(* the body length; marker tells where the lowercased body holds "<html":   *)
(* "none" nowhere, "start" at its start, "late" only far behind its start.  *)

FetchAnswer(kind, status, len, marker) ==
    [kind |-> kind, status |-> status, len |-> len, marker |-> marker]

\* lines 98-99: the URL the content is requested from
FetchUrl(timestamp, original_url) ==
    <<"http://web.archive.org/web/", timestamp, "/">> \o Quote(original_url)

\* a validation that forgets the length
get_snapshot_contentAnyLength(resp) ==
    /\ resp.kind # "exc"
    /\ resp.status = 200
    /\ resp.marker # "none"

\* TRUE when the body is returned, FALSE when None is
get_snapshot_content(resp) ==
    /\ resp.kind # "exc"
    /\ resp.status = 200
    /\ resp.len > 500
    /\ resp.marker # "none"

\* the response text, told apart by its length and by where its marker is
Body(resp) == Str("body:" \o ToString(resp.len) \o ":" \o resp.marker)

\* what get_snapshot_content returns: the body, or None
ContentValue(resp) == IF get_snapshot_content(resp) THEN Body(resp) ELSE PyNone

\* the fetch record of a call the cache answered: the archive was not asked
NoRequest == FetchAnswer("none", 0, 0, "none")

-----------------------------------------------------------------------------
(* main: the submit handler from the find call on, lines 164-198            *)

\* a handler that does not look at the domain
DomainMissingIgnored(d) == FALSE

\* line 164: if not query_info["domain"]
DomainMissing(d) == d = "None"

\* a handler that fetches whatever find returned
ShouldFetchAlways(r) == TRUE

\* line 184: if not timestamp
ShouldFetch(r) == r.timestamp # "None"

\* inputs
MaxOffset == 2
MaxFails == 1
DefaultMaxOffset == 7
\* a new year and a leap day inside the window; the last day datetime.date
\* can hold, behind which no date can be built
Targets == {MkDate(2023, 1, 1), MkDate(2024, 2, 28), MkDate(9999, 12, 31)}
MaxOffsets == (0..MaxOffset) \cup {DefaultMaxOffset}
Sites == {"None", "asos.com"}
CacheStates == {"none", "absent", "stale", "partial"}
\* the content cache file at the button press: none; written an hour before
\* by a call that failed or by one that got a page; a page written 90 days
\* before; a None written an hour less than 90 days before
ContentFiles ==
    {NoFile,
     StoreResult(PyNone, -1),
     StoreResult(Body(FetchAnswer("resp", 200, 501, "start")), -1),
     StoreResult(Body(FetchAnswer("resp", 200, 501, "start")), -(24 * 90)),
     StoreResult(PyNone, 1 - 24 * 90)}
\* a failed request, a missing page, a partial answer, the bodies of the
\* tests (38 and 16 characters), a body of 10 characters, and bodies at and
\* over the length limit with the marker at the start, far behind it, nowhere
FetchAnswers ==
    {FetchAnswer("exc", 0, 0, "none"), FetchAnswer("resp", 404, 600, "start"),
     FetchAnswer("resp", 206, 600, "start"),
     FetchAnswer("resp", 200, 38, "start"), FetchAnswer("resp", 200, 16, "none"),
     FetchAnswer("resp", 200, 10, "none"), FetchAnswer("resp", 200, 500, "start"),
     FetchAnswer("resp", 200, 501, "none"), FetchAnswer("resp", 200, 501, "start"),
     FetchAnswer("resp", 200, 501, "late")}

InitFind ==
    /\ fpc = "idle"
    /\ site_url \in Sites
    /\ target \in Targets
    /\ maxOff \in MaxOffsets
    /\ fcache \in CacheStates
    /\ content_cache \in ContentFiles
    /\ offsets = <<>> /\ idx = 0 /\ probes = <<>>
    /\ fres = NoFind /\ fetches = <<>>
    /\ QueryIdle
    /\ LinkIdle
    /\ RetryIdle
    /\ CacheIdle

\* lines 164-182 and the cache lookup of the find call
Submit ==
    /\ fpc = "idle"
    /\ IF DomainMissing(site_url)
       THEN /\ fpc' = "done"
            /\ UNCHANGED <<offsets, fres>>
       ELSE IF CacheServes(fcache)
       THEN /\ fpc' = "returned"
            /\ fres' = NoFind
            /\ UNCHANGED offsets
       ELSE /\ fpc' = "probing"
            /\ offsets' = BuildOffsets(maxOff)
            /\ UNCHANGED fres
    /\ UNCHANGED <<site_url, target, maxOff, fcache, content_cache, idx, probes, fetches>>
    /\ UNCHANGED qvars
    /\ UNCHANGED lvars
    /\ UNCHANGED rvars
    /\ UNCHANGED cvars

\* one pass of the for loop, lines 53-79, and the return behind the loop
Probe ==
    /\ fpc = "probing"
    /\ idx < Len(offsets)
    /\ LET test_date == AddDays(target, offsets[idx + 1])
       IN  IF test_date.exc # ""
           THEN /\ fpc' = "raised"
                /\ UNCHANGED <<idx, probes, fres, fcache>>
           ELSE \E ans \in IndexAnswers :
                /\ IsFailure(ans.kind) =>
                      \/ NumFailures(probes) < MaxFails
                      \/ Outage(probes) /\ ans = IndexAnswer("exc", FALSE)
                /\ probes' = Append(probes, ProbeRecord(test_date.date, ans))
                /\ idx' = idx + 1
                /\ IF AfterAnswer(ans.kind) = "return"
                   THEN /\ fres' = FindResult(CaptureStamp(StrfYmd(test_date.date)),
                                              CaptureUrl(site_url), test_date.date)
                        /\ fcache' = CacheAfterStore(fres')
                        /\ fpc' = "returned"
                   ELSE IF AfterAnswer(ans.kind) = "raise"
                   THEN /\ fpc' = "raised"
                        /\ UNCHANGED <<fres, fcache>>
                   ELSE IF idx + 1 = Len(offsets)
                   THEN /\ fres' = NoFind
                        /\ fcache' = CacheAfterStore(fres')
                        /\ fpc' = "returned"
                   ELSE UNCHANGED <<fres, fcache, fpc>>
    /\ UNCHANGED <<site_url, target, maxOff, content_cache, offsets, fetches>>
    /\ UNCHANGED qvars
    /\ UNCHANGED lvars
    /\ UNCHANGED rvars
    /\ UNCHANGED cvars

\* lines 184-185: no snapshot, the handler reports it and ends
NoSnapshot ==
    /\ fpc = "returned"
    /\ ~ShouldFetch(fres)
    /\ fpc' = "done"
    /\ UNCHANGED <<site_url, target, maxOff, fcache, content_cache, offsets, idx, probes,
                   fres, fetches>>
    /\ UNCHANGED qvars
    /\ UNCHANGED lvars
    /\ UNCHANGED rvars
    /\ UNCHANGED cvars

\* lines 186-198: the content fetch of the snapshot found, through the cache
\* wrapper of get_snapshot_content; the handler runs at hour 0
Fetch ==
    /\ fpc = "returned"
    /\ ShouldFetch(fres)
    /\ IF CacheHit(content_cache, 0, ExpireAfterDays("get_snapshot_content"))
       THEN /\ fetches' = Append(fetches,
                    [timestamp |-> fres.timestamp, original_url |-> fres.original_url,
                     requested |-> FALSE, url |-> <<>>, resp |-> NoRequest,
                     content |-> content_cache.result # PyNone])
            /\ UNCHANGED content_cache
       ELSE \E resp \in FetchAnswers :
            /\ fetches' = Append(fetches,
                    [timestamp |-> fres.timestamp, original_url |-> fres.original_url,
                     requested |-> TRUE,
                     url |-> FetchUrl(fres.timestamp, fres.original_url),
                     resp |-> resp, content |-> get_snapshot_content(resp)])
            /\ content_cache' = StoreResult(ContentValue(resp), 0)
    /\ fpc' = "done"
    /\ UNCHANGED <<site_url, target, maxOff, fcache, offsets, idx, probes, fres>>
    /\ UNCHANGED qvars
    /\ UNCHANGED lvars
    /\ UNCHANGED rvars
    /\ UNCHANGED cvars

NextFind == Submit \/ Probe \/ NoSnapshot \/ Fetch

SpecFind == InitFind /\ [][NextFind]_vars

-----------------------------------------------------------------------------
(* WaybackClient.get_wayback_url, lines 122-134                             *)

\* a link that leaves "/" unescaped
get_wayback_urlKeepSlash(timestamp, original_url) ==
    <<"https://web.archive.org/web/", timestamp, "/">> \o QuoteKeepSlash(original_url)

get_wayback_url(timestamp, original_url) ==
    <<"https://web.archive.org/web/", timestamp, "/">> \o Quote(original_url)

\* the number of calls made with one pair of arguments
MaxLinkCalls == 2

\* capture identifiers: two full timestamps and a date alone
CaptureIds == {"20230101123456", "20240229000000", "20230101"}

\* original URLs: "http://example.com", "http://asos.com/",
\* "https://www.asos.com/women/?q=a b&x=50%#top", "asos.com" and ""
SourceUrls ==
    {<<"http", ":", "/", "/", "example.com">>,
     <<"http", ":", "/", "/", "asos.com", "/">>,
     <<"https", ":", "/", "/", "www.asos.com", "/", "women", "/", "?", "q", "=",
       "a", " ", "b", "&", "x", "=", "50", "%", "#", "top">>,
     <<"asos.com">>,
     <<>>}

\* clients as WaybackClient(cache_enabled=..., max_retries=...) makes them
Clients == {Client(c, r) : c \in BOOLEAN, r \in {0, 3}}

InitLink ==
    /\ lpc = "idle"
    /\ client \in Clients
    /\ capture_id \in CaptureIds
    /\ source_url \in SourceUrls
    /\ links = <<>>
    /\ QueryIdle
    /\ RetryIdle
    /\ CacheIdle
    /\ fpc = "off" /\ site_url = "None" /\ target = NoDate /\ maxOff = 0
    /\ fcache \in CacheStates
    /\ content_cache = NoFile
    /\ offsets = <<>> /\ idx = 0 /\ probes = <<>>
    /\ fres = NoFind /\ fetches = <<>>

\* one call of get_wayback_url
GetWaybackUrl ==
    /\ lpc = "idle"
    /\ Len(links) < MaxLinkCalls
    /\ links' = Append(links, get_wayback_url(capture_id, source_url))
    /\ UNCHANGED <<lpc, client, capture_id, source_url>>
    /\ UNCHANGED qvars
    /\ UNCHANGED fvars
    /\ UNCHANGED rvars
    /\ UNCHANGED cvars

NextLink == GetWaybackUrl

SpecLink == InitLink /\ [][NextLink]_vars

-----------------------------------------------------------------------------
(* retry_with_exponential_backoff, error_handling.py lines 30-82.  An       *)
(* invocation of the wrapped operation returns ("ok") or raises the named   *)
(* exception.  Delays are in units of 0.1 millisecond, cut to whole units.  *)

\* the defaults of initial_delay (1 second) and exponential_base
initial_delay == 10000
exponential_base == 2

\* a wrapper that retries after every exception
IsAllowListedAny(e) == e # "ok"

\* line 60: isinstance(e, (WaybackError, OpenAIError, ConnectionError,
\* TimeoutError)); SnapshotNotFoundError derives from WaybackError, the
\* exceptions of requests derive from OSError alone
IsAllowListed(e) ==
    e \in {"WaybackError", "SnapshotNotFoundError", "OpenAIError",
           "ConnectionError", "TimeoutError"}

\* a wrapper that gives up when the counter reaches the limit
RetriesExhaustedAtLimit(retries, max_retries) == retries >= max_retries

\* line 65: if num_retries > max_retries
RetriesExhausted(retries, max_retries) == retries > max_retries

\* lines 69-72; rnd is random.random() in thousandths
NextDelay(d, with_jitter, rnd) ==
    IF with_jitter
    THEN (d * exponential_base * (10000 + rnd)) \div 10000
    ELSE d * exponential_base

\* inputs: the limits tried, what an invocation can do, the random draws
MaxRetryLimit == 2
RetryLimits == 0..MaxRetryLimit
Outcomes ==
    {"ok", "WaybackError", "SnapshotNotFoundError", "ConnectionError",
     "TimeoutError", "ValueError", "requests.ConnectionError"}
RandomDraws == {0, 999}

InitRetry ==
    /\ rpc = "calling"
    /\ retry_limit \in RetryLimits
    /\ jitter \in BOOLEAN
    /\ num_retries = 0
    /\ delay = initial_delay
    /\ calls = <<>> /\ sleeps = <<>> /\ rexc = ""
    /\ QueryIdle
    /\ FindIdle
    /\ LinkIdle
    /\ CacheIdle

\* one pass of the while loop, lines 56-78
Attempt ==
    /\ rpc = "calling"
    /\ \E outcome \in Outcomes, rnd \in RandomDraws :
        /\ (~jitter \/ outcome = "ok" \/ ~IsAllowListed(outcome)) => rnd = 0
        /\ calls' = Append(calls, outcome)
        /\ IF outcome = "ok"
           THEN /\ rpc' = "returned"
                /\ UNCHANGED <<num_retries, delay, sleeps, rexc>>
           ELSE IF ~IsAllowListed(outcome)
           THEN /\ rpc' = "raised"
                /\ rexc' = outcome
                /\ UNCHANGED <<num_retries, delay, sleeps>>
           ELSE /\ num_retries' = num_retries + 1
                /\ IF RetriesExhausted(num_retries', retry_limit)
                   THEN /\ rpc' = "raised"
                        /\ rexc' = outcome
                        /\ UNCHANGED <<delay, sleeps>>
                   ELSE /\ delay' = NextDelay(delay, jitter, rnd)
                        /\ sleeps' = Append(sleeps, delay')
                        /\ UNCHANGED <<rpc, rexc>>
    /\ UNCHANGED <<retry_limit, jitter>>
    /\ UNCHANGED qvars
    /\ UNCHANGED fvars
    /\ UNCHANGED lvars
    /\ UNCHANGED cvars

NextRetry == Attempt

SpecRetry == InitRetry /\ [][NextRetry]_vars

-----------------------------------------------------------------------------
(* cache_result, cache.py lines 48-117: the calls of one decorated          *)
(* operation made on one object with one argument list, so with one key and *)
(* one cache file.  Time is in hours.                                       *)

\* inputs: the decorated operations, what an invocation gives, the time
\* between two calls, the number of calls, the objects the calls are made on
MemoizedOperations ==
    {"find_snapshot_for_date", "get_snapshot_content", "analyze_content"}
AbsentTuple == Tuple(<<PyNone, PyNone, PyNone>>)
FoundTuple ==
    Tuple(<<Str("20230101123456"), Str("http://asos.com/"), Date("2023-01-01")>>)
Results(op) ==
    CASE op = "find_snapshot_for_date" -> {AbsentTuple, FoundTuple}
      [] op = "get_snapshot_content" -> {PyNone, Str("<html>asos</html>")}
      [] op = "analyze_content" ->
            {Str("1. SUMMARY: sale"), Str("1. SUMMARY: new season"),
             Raised("ValueError")}
Elapsed(op) == {1, 24 * ExpireAfterDays(op) - 1, 24 * ExpireAfterDays(op)}
MaxCacheCalls == 3
CacheClients == {Client(c, 3) : c \in BOOLEAN}

InitCache ==
    /\ mpc = "idle"
    /\ wrapped \in MemoizedOperations
    /\ client \in CacheClients
    /\ clock = 0
    /\ cache_file = NoFile
    /\ memo_calls = <<>>
    /\ lpc = "off" /\ capture_id = "" /\ source_url = <<>> /\ links = <<>>
    /\ QueryIdle
    /\ FindIdle
    /\ RetryIdle

\* one call through the wrapper, lines 66-115; cache_enabled is the keyword
\* argument line 68 pops (True when the caller does not pass it)
MemoizedCall ==
    /\ mpc = "idle"
    /\ Len(memo_calls) < MaxCacheCalls
    /\ \E elapsed \in Elapsed(wrapped), cache_enabled \in BOOLEAN,
          outcome \in Results(wrapped) :
        LET current_time == clock + elapsed
            hit == /\ cache_enabled
                   /\ CacheHit(cache_file, current_time, ExpireAfterDays(wrapped))
            returned == IF hit THEN cache_file.result ELSE outcome
            after == IF ~cache_enabled \/ hit \/ outcome.type = "raised"
                     THEN cache_file
                     ELSE StoreResult(outcome, current_time)
        IN  /\ clock' = current_time
            /\ cache_file' = after
            /\ memo_calls' = Append(memo_calls,
                    [at |-> current_time, cache_enabled |-> cache_enabled,
                     found |-> cache_file, invoked |-> ~hit,
                     returned |-> returned, file |-> after])
    /\ UNCHANGED <<mpc, wrapped>>
    /\ UNCHANGED qvars
    /\ UNCHANGED fvars
    /\ UNCHANGED lvars
    /\ UNCHANGED rvars

\* clear_cache, lines 121-134: every .json file of the cache directory is
\* removed
ClearCache ==
    /\ mpc = "idle"
    /\ cache_file' = NoFile
    /\ UNCHANGED <<mpc, wrapped, clock, memo_calls>>
    /\ UNCHANGED qvars
    /\ UNCHANGED fvars
    /\ UNCHANGED lvars
    /\ UNCHANGED rvars

NextCache == MemoizedCall \/ ClearCache

SpecCache == InitCache /\ [][NextCache]_vars

-----------------------------------------------------------------------------
(* Properties of the snapshot search (SpecFind)                             *)

\* the i-th offset of the sequence 0, +1, -1, +2, -2, ...
OffsetAt(i) == IF i = 1 THEN 0 ELSE IF i % 2 = 0 THEN i \div 2 ELSE -(i \div 2)
ExpectedProbeDate(i) == AddDays(target, OffsetAt(i)).date

\* distance in days from the target date
Dist(dt) == Abs(ToOrdinal(dt) - ToOrdinal(target))

NoProbeHit == \A i \in 1..Len(probes) : probes[i].answer # "hit"
WindowDates == {AddDays(target, k).date : k \in (-maxOff)..maxOff}

\* C1: the index queries of find_snapshot_for_date go to D, D+1, D-1, D+2,
\* D-2, ..., D+M, D-M in exactly that order, at most one per date, and none
\* follows the first query that reports a capture.
C1_ProbeOrder ==
    /\ Len(probes) <= 2 * maxOff + 1
    /\ \A i \in 1..Len(probes) :
        /\ probes[i].date = ExpectedProbeDate(i)
        /\ probes[i].stamp = StrfYmd(ExpectedProbeDate(i))
    /\ \A i, j \in 1..Len(probes) : i # j => probes[i].stamp # probes[j].stamp
    /\ \A i \in 1..(Len(probes) - 1) : probes[i].answer # "hit"

\* C1 witness: with max_offset 2 the fifth query, for D-2, is the first to
\* report a capture and the search has returned.
C1_Witness ==
    /\ fpc = "returned" /\ maxOff = 2 /\ Len(probes) = 5
    /\ probes[5].answer = "hit"
    /\ probes[5].date = AddDays(target, -2).date
    /\ probes[2].date = AddDays(target, 1).date

\* C2: when find_snapshot_for_date returns found_date F, no date strictly
\* nearer to the target holds a successfully captured snapshot in the archive
\* index, nor does the later date at the same distance when F is the earlier.
C2_NearestCapture ==
    fres.found_date # NoDate =>
        \A i \in 1..Len(probes) :
            (\/ Dist(probes[i].date) < Dist(fres.found_date)
             \/ /\ Dist(probes[i].date) = Dist(fres.found_date)
                /\ DateLess(fres.found_date, probes[i].date))
            => ~probes[i].has

\* C3: when no date of the window yields an index hit, find_snapshot_for_date
\* returns (None, None, None), having queried every date of the window when
\* it searched, and the handler never calls get_snapshot_content.
C3_Exhaustion ==
    (fpc \in {"returned", "done"} /\ NoProbeHit) =>
        /\ fres = NoFind
        /\ fetches = <<>>
        /\ offsets # <<>> =>
            /\ Len(probes) = 2 * maxOff + 1
            /\ {probes[i].date : i \in 1..Len(probes)} = WindowDates

\* C3 witness: a search over the five dates of a window of radius 2, one of
\* its queries failing, found nothing and the handler ended without a fetch.
C3_Witness ==
    /\ fpc = "done" /\ maxOff = 2 /\ Len(probes) = 5 /\ NoProbeHit
    /\ NumFailures(probes) = 1
    /\ fres = NoFind /\ fetches = <<>>

\* the handler asked the archive for the content (the cache did not answer)
ContentRequested == \E k \in 1..Len(fetches) : fetches[k].requested

\* C13: between an index query and the next network request (the next index
\* query or the content fetch) the fixed delay of the locator elapses, also
\* when the index query failed with a transport error or a bad status.
C13_DelayBetweenRequests ==
    \A i \in 1..Len(probes) :
        (i < Len(probes) \/ ContentRequested) => probes[i].slept

\* an HTTP status of the success class
StatusSuccess(status) == status \in 200..299

\* the pieces of a URL
Pieces(url) == {url[i] : i \in 1..Len(url)}

\* C14: get_snapshot_content returns the body only if the status is success,
\* the body exceeds the minimum length and the body holds the document-root
\* marker near its start; for a wrong status, a too-short body, a body
\* without the marker and a transport exception it returns None.
C14_ValidNearStart ==
    \A i \in 1..Len(fetches) :
        LET f == fetches[i]
        IN  f.requested =>
            /\ f.content =>
                  /\ f.resp.kind = "resp" /\ StatusSuccess(f.resp.status)
                  /\ f.resp.len > 500 /\ f.resp.marker = "start"
            /\ (\/ f.resp.kind = "exc" \/ ~StatusSuccess(f.resp.status)
                \/ f.resp.len <= 500 \/ f.resp.marker = "none") => ~f.content

\* C14 as amended: the same, with the marker anywhere in the body.
C14_ValidAnywhere ==
    \A i \in 1..Len(fetches) :
        LET f == fetches[i]
        IN  f.requested =>
            /\ f.content =>
                  /\ f.resp.kind = "resp" /\ StatusSuccess(f.resp.status)
                  /\ f.resp.len > 500 /\ f.resp.marker # "none"
            /\ (\/ f.resp.kind = "exc" \/ ~StatusSuccess(f.resp.status)
                \/ f.resp.len <= 500 \/ f.resp.marker = "none") => ~f.content

\* C14 witness: a body of 501 characters that holds the marker only far
\* behind its start was returned to the handler.
C14_Witness ==
    /\ fpc = "done" /\ Len(fetches) = 1
    /\ fetches[1].resp = FetchAnswer("resp", 200, 501, "late")
    /\ fetches[1].content

\* C15: when the archive answers the content request with status 200 and an
\* HTML document body, get_snapshot_content returns that body, after a single
\* request whose URL holds the capture timestamp and the host of the
\* original URL.
C15_HtmlBodyReturned ==
    \A i \in 1..Len(fetches) :
        LET f == fetches[i]
        IN  (f.resp.kind = "resp" /\ f.resp.status = 200 /\ f.resp.marker = "start") =>
                /\ f.content
                /\ Len(fetches) = 1
                /\ f.timestamp \in Pieces(f.url)
                /\ site_url \in Pieces(f.url)

\* the search was run again: some date was queried twice
Requeried == \E i, j \in 1..Len(probes) : i < j /\ probes[i].date = probes[j].date

\* C19: a transient error raised by an index query or by the content fetch
\* reaches the retry wrapper, which attempts the operation again (and raises
\* the error to the caller once its limit is exhausted): a handler that has
\* ended after such an error has seen the operation repeated.
C19_TransientRetried ==
    fpc = "done" =>
        /\ (\E i \in 1..Len(probes) : probes[i].answer = "exc") => Requeried
        /\ (\E i \in 1..Len(fetches) : fetches[i].resp.kind = "exc") => Len(fetches) > 1

\* every index query so far raised
AllProbesRaised == \A i \in 1..Len(probes) : probes[i].answer = "exc"

\* C20: an exception raised by an index query never leaves
\* find_snapshot_for_date: the search goes on with the next offset, and when
\* every index query raises the call returns (None, None, None).
C20_QueryErrorSwallowed ==
    /\ fpc = "raised" =>
          idx < Len(offsets) /\ AddDays(target, offsets[idx + 1]).exc # ""
    /\ (probes # <<>> /\ probes[Len(probes)].answer = "exc") =>
          IF Len(probes) < Len(offsets)
          THEN fpc \in {"probing", "raised"}
          ELSE fpc \in {"returned", "done"} /\ fres = NoFind
    /\ (fpc \in {"returned", "done"} /\ offsets # <<>> /\ AllProbesRaised) =>
          fres = NoFind /\ Len(probes) = 2 * maxOff + 1

\* C20 witness: with max_offset 1 all three index queries raised and the
\* call returned (None, None, None).
C20_Witness ==
    /\ fpc = "returned" /\ maxOff = 1 /\ Len(probes) = 3 /\ AllProbesRaised
    /\ fres = NoFind

\* C30: when find_snapshot_for_date returns a record, its found_date is the
\* date of the query that reported the capture and lies within max_offset
\* days of the target date; no date outside the window is queried or returned.
C30_WithinWindow ==
    /\ \A i \in 1..Len(probes) : Dist(probes[i].date) <= maxOff
    /\ fres.found_date # NoDate =>
          /\ probes # <<>>
          /\ probes[Len(probes)].answer = "hit"
          /\ fres.found_date = probes[Len(probes)].date
          /\ fres.timestamp = CaptureStamp(probes[Len(probes)].stamp)
          /\ Dist(fres.found_date) <= maxOff

\* C30 witness: with the default max_offset of 7 the fourteenth query, for
\* the day seven days after 28 February 2024, reported the capture returned.
C30_Witness ==
    /\ fpc = "returned" /\ maxOff = 7 /\ target = MkDate(2024, 2, 28)
    /\ Len(probes) = 14 /\ probes[14].answer = "hit"
    /\ fres.found_date = MkDate(2024, 3, 6)

\* C22: for a query whose resolved domain is absent the handler never calls
\* find_snapshot_for_date: it reports the missing domain and ends, with no
\* index query and no fetch.
C22_NoDomainNoSearch ==
    site_url = "None" =>
        /\ fpc \in {"idle", "done"}
        /\ offsets = <<>> /\ probes = <<>> /\ fetches = <<>>
        /\ fres = NoFind

\* C22 witness: the handler has ended for a query without a domain.
C22_Witness ==
    /\ site_url = "None" /\ fpc = "done"
    /\ probes = <<>> /\ fetches = <<>>

-----------------------------------------------------------------------------
(* Properties of the date resolution (SpecQuery)                            *)

\* the phrases of the query that a time pattern can match
TimePhrasePositions == {i \in 1..Len(query) : query[i].k \in {"last", "ago"}}

\* the query holds exactly one time phrase; ThePhrase is that phrase
OneTimePhrase == Cardinality(TimePhrasePositions) = 1
ThePhrase == query[CHOOSE i \in TimePhrasePositions : TRUE]

\* a call without custom_date has ended
Resolved == qpc = "done" /\ custom = NoDate

\* dt moved back by n calendar years / months, the day cut to the month's length
YearsBefore(dt, n) ==
    MkDate(dt.y - n, dt.m, Min(dt.d, DaysInMonth(dt.y - n, dt.m)))
MonthsBefore(dt, n) ==
    LET total == dt.y * 12 + (dt.m - 1) - n
        y == total \div 12
        m == (total % 12) + 1
    IN  MkDate(y, m, Min(dt.d, DaysInMonth(y, m)))
DaysBefore(dt, n) == FromOrdinal(ToOrdinal(dt) - n)
UnitsBefore(dt, n, unit) ==
    CASE unit = "year"  -> YearsBefore(dt, n)
      [] unit = "month" -> MonthsBefore(dt, n)
      [] unit = "week"  -> DaysBefore(dt, 7 * n)
      [] unit = "day"   -> DaysBefore(dt, n)

\* C4: process_query without custom_date never raises and returns a concrete
\* calendar date as target_date, whichever branch handles the query.
C4_NeverRaises ==
    Resolved =>
        /\ qres.exc = ""
        /\ IsValidDate(qres.target_date.y, qres.target_date.m, qres.target_date.d)

\* C5: when the inference call fails (it raises, or yields no usable
\* candidate) and the query matches no deterministic pattern, process_query
\* raises nothing and target_date is the current date minus one calendar year.
C5_FallbackDefault ==
    (Resolved /\ TimePhrasePositions = {} /\ llm.kind \in FailKinds) =>
        /\ qres.exc = ""
        /\ qres.target_date = YearsBefore(today, 1)

\* C5 witness: on 29 February 2024 the model call raises for a query without
\* a time phrase, and the date resolved is 28 February 2023.
C5_Witness ==
    /\ Resolved /\ query = <<Word("promoting"), Host("asos.com")>>
    /\ llm.kind = "raise" /\ today = MkDate(2024, 2, 29)
    /\ qres.exc = "" /\ qres.target_date = MkDate(2023, 2, 28)

\* C6: for a query whose time phrase is "N days/weeks/months/years ago",
\* for every non-negative N, target_date is the current date minus exactly N
\* of that calendar unit.
C6_AgoExact ==
    (Resolved /\ OneTimePhrase /\ ThePhrase.k = "ago") =>
        /\ qres.exc = ""
        /\ qres.target_date = UnitsBefore(today, ThePhrase.n, ThePhrase.w)

\* C7: "last <month name>" with month number m resolves to the 15th of month
\* m of the current year when m is less than the current month, and of the
\* previous year otherwise.
C7_LastMonthYear ==
    (Resolved /\ OneTimePhrase /\ ThePhrase.k = "last" /\ ThePhrase.w \in MonthNameSet) =>
        LET m == IndexOf(month_names, ThePhrase.w)
        IN  /\ qres.exc = ""
            /\ qres.target_date =
                 MkDate(IF m < today.m THEN today.y ELSE today.y - 1, m, 15)

\* C8: "last <month name>" resolves to the most recent 15th day of that month
\* that lies strictly before the current date.
C8_LastMonthMostRecent ==
    (Resolved /\ OneTimePhrase /\ ThePhrase.k = "last" /\ ThePhrase.w \in MonthNameSet) =>
        LET m == IndexOf(month_names, ThePhrase.w)
            this_year == MkDate(today.y, m, 15)
        IN  /\ qres.exc = ""
            /\ qres.target_date =
                 (IF DateLess(this_year, today) THEN this_year
                  ELSE MkDate(today.y - 1, m, 15))

\* C9: "last winter" resolves to the current date minus one year when the
\* current month is December, January or February, and to January 15 of the
\* current year in every other month.
C9_LastWinter ==
    (Resolved /\ OneTimePhrase /\ ThePhrase = Last("winter")) =>
        /\ qres.exc = ""
        /\ qres.target_date =
             (IF today.m \in {12, 1, 2} THEN YearsBefore(today, 1)
              ELSE MkDate(today.y, 1, 15))

\* C10: "last <holiday>" for a fixed-date holiday resolves to exactly that
\* month and day of the current year when the current date is on or after
\* it, and of the previous year when the current date is before it.
C10_LastHoliday ==
    (Resolved /\ OneTimePhrase /\ ThePhrase.k = "last"
        /\ ThePhrase.w \in HolidayNameSet \ {"easter"}) =>
        LET mo == HolidayMonth(ThePhrase.w)
            da == HolidayDay(ThePhrase.w)
        IN  /\ qres.exc = ""
            /\ qres.target_date =
                 MkDate(IF DateLess(today, MkDate(today.y, mo, da))
                        THEN today.y - 1 ELSE today.y, mo, da)

\* the class of a time phrase in the order literal phrase, quantified phrase,
\* named month, named season, named holiday
PatternClass(ph) ==
    IF ph.k = "ago" THEN 2
    ELSE IF ph.w \in {"year", "month", "week"} THEN 1
    ELSE IF ph.w \in MonthNameSet THEN 3
    ELSE IF ph.w \in SeasonNameSet THEN 4
    ELSE 5

\* the time phrases of the query whose class comes first in that order
FirstClassPositions ==
    {i \in TimePhrasePositions :
        \A j \in TimePhrasePositions : PatternClass(query[i]) <= PatternClass(query[j])}

\* C11: process_query tries the patterns in the order literal phrases,
\* quantified phrases, named month, named season, named holiday; a phrase of
\* the first class that matches alone decides the outcome, whatever else the
\* query holds, and the model is asked only when no pattern matches.
C11_PatternOrder ==
    Resolved =>
        /\ qres.inferred => TimePhrasePositions = {}
        /\ TimePhrasePositions # {} =>
            \E i \in FirstClassPositions :
                LET alone == process_query(<<query[i]>>, today, NoDate, NoCall)
                IN  /\ qres.exc = alone.exc
                    /\ qres.target_date = alone.target_date

\* C11 witness: "last christmas ... last year" on 29 February 2024 resolves
\* by the literal phrase, to 28 February 2023, without asking the model.
C11_Witness ==
    /\ Resolved /\ query = <<Last("christmas"), Last("year")>>
    /\ today = MkDate(2024, 2, 29)
    /\ ~qres.inferred /\ qres.exc = ""
    /\ qres.target_date = MkDate(2023, 2, 28)

\* C12: a response text of the model is read by the rules for queries:
\* "last month" resolves to the current date minus one month, "last week" to
\* the current date minus one week, "N <unit>s ago" to the current date minus
\* N of that unit.
C12_AnswerRules ==
    (Resolved /\ qres.inferred /\ llm.kind \in {"text", "parts"} /\ Len(llm.text) = 1) =>
        LET ph == llm.text[1]
        IN  /\ (ph.k = "last" /\ ph.w \in {"month", "week"}) =>
                  /\ qres.exc = ""
                  /\ qres.target_date = UnitsBefore(today, 1, ph.w)
            /\ ph.k = "ago" =>
                  /\ qres.exc = ""
                  /\ qres.target_date = UnitsBefore(today, ph.n, ph.w)

\* the tokens of the query that have the shape of a host name as a whole
HostPositions == {i \in 1..Len(query) : query[i].k = "host"}

\* C23: for a query that holds a token of host-name shape process_query
\* returns exactly the first such token as domain; for a query without one
\* the domain is None and no exception is raised.
C23_DomainIsFirstHost ==
    qpc = "done" =>
        /\ HostPositions # {} =>
              /\ qres.exc = ""
              /\ qres.domain =
                    query[CHOOSE i \in HostPositions : \A j \in HostPositions : i <= j].w
        /\ HostPositions = {} =>
              /\ qres.exc = ""
              /\ qres.domain = "None"

\* C24: focus classification goes by priority: a promotion term anywhere in
\* the lowercased query gives "promotions" whatever else it holds; otherwise
\* a product term gives "products"; otherwise a delivery term gives
\* "delivery"; otherwise the focus is unset.
C24_FocusPriority ==
    qpc = "done" =>
        LET promo == \E w \in {"promo", "promotion", "offer", "discount", "sale"} :
                        QueryContains(query, w)
            prod == \E w \in {"product", "range", "item", "selling"} :
                        QueryContains(query, w)
            deliv == \E w \in {"delivery", "shipping", "fulfillment"} :
                        QueryContains(query, w)
        IN  qres.focus = (IF promo THEN "promotions"
                          ELSE IF prod THEN "products"
                          ELSE IF deliv THEN "delivery"
                          ELSE "None")

\* C24 witness: "Shipping promoting" holds a delivery term and a promotion
\* term and is classified "promotions"; the host name plays no part.
C24_Witness ==
    /\ qpc = "done" /\ query = <<Word("Shipping"), Word("promoting")>>
    /\ qres.focus = "promotions" /\ qres.domain = "None"

-----------------------------------------------------------------------------
(* Properties of the link (SpecLink)                                        *)

\* the percent-encoded text of the original URLs, piece by piece
PercentEncoded(url) ==
    CASE url = <<"http", ":", "/", "/", "example.com">> ->
            <<"http", "%3A", "%2F", "%2F", "example.com">>
      [] url = <<"http", ":", "/", "/", "asos.com", "/">> ->
            <<"http", "%3A", "%2F", "%2F", "asos.com", "%2F">>
      [] url = <<"https", ":", "/", "/", "www.asos.com", "/", "women", "/", "?",
                 "q", "=", "a", " ", "b", "&", "x", "=", "50", "%", "#", "top">> ->
            <<"https", "%3A", "%2F", "%2F", "www.asos.com", "%2F", "women", "%2F",
              "%3F", "q", "%3D", "a", "%20", "b", "%26", "x", "%3D", "50", "%25",
              "%23", "top">>
      [] url = <<"asos.com">> -> <<"asos.com">>
      [] url = <<>> -> <<>>

\* C16: the link is the archive path template with the capture identifier
\* followed by the percent-encoded source URL, and calls with the same
\* (capture_id, source_url) return the same link, whatever earlier calls
\* left in the cache and however the client was configured.
C16_LinkPure ==
    \A i \in 1..Len(links) :
        /\ links[i] = <<"https://web.archive.org/web/", capture_id, "/">>
                          \o PercentEncoded(source_url)
        /\ links[i] = links[1]

\* C16 witness: the second call for "http://asos.com/", on a client with
\* caching off and an unreadable cache file left by an earlier find, has
\* returned the link with the escaped URL.
C16_Witness ==
    /\ Len(links) = 2 /\ capture_id = "20240229000000"
    /\ source_url = <<"http", ":", "/", "/", "asos.com", "/">>
    /\ client = Client(FALSE, 0) /\ fcache = "partial"
    /\ links[2] = <<"https://web.archive.org/web/", "20240229000000", "/",
                     "http", "%3A", "%2F", "%2F", "asos.com", "%2F">>

\* C17: get_wayback_url(timestamp, original_url) is
\* "https://web.archive.org/web/", the timestamp, "/" and the original URL
\* exactly as it was given.
C17_LinkVerbatim ==
    \A i \in 1..Len(links) :
        links[i] = <<"https://web.archive.org/web/", capture_id, "/">> \o source_url

-----------------------------------------------------------------------------
(* Properties of the retry wrapper (SpecRetry)                              *)

\* every invocation so far failed with an error of the allow-list
AllFailedAllowListed == \A i \in 1..Len(calls) : IsAllowListed(calls[i])

\* C18: for an operation that fails on every invocation with an allow-listed
\* error, a wrapper configured with limit N invokes the operation at most N
\* times in total and then re-raises the last error.
C18_AtMostNInvocations ==
    AllFailedAllowListed =>
        /\ Len(calls) <= retry_limit
        /\ rpc = "raised" => rexc = calls[Len(calls)]

\* C18 as amended: at most N + 1 invocations, the first one and N retries;
\* the error of the last one is re-raised after exactly N + 1.
C18_AtMostNPlusOne ==
    AllFailedAllowListed =>
        /\ Len(calls) <= retry_limit + 1
        /\ rpc = "raised" <=> Len(calls) = retry_limit + 1
        /\ rpc = "raised" => rexc = calls[Len(calls)]
        /\ Len(sleeps) = IF rpc = "raised" THEN retry_limit ELSE Len(calls)

\* C18 witness: with limit 2 the operation failed three times, the last time
\* with TimeoutError, which the wrapper raised after two sleeps.
C18_Witness ==
    /\ rpc = "raised" /\ retry_limit = 2
    /\ calls = <<"WaybackError", "SnapshotNotFoundError", "TimeoutError">>
    /\ rexc = "TimeoutError" /\ Len(sleeps) = 2

\* errors that are neither WaybackError, OpenAIError, ConnectionError nor
\* TimeoutError, nor derived from one of them
OffListErrors == {"ValueError", "requests.ConnectionError"}

\* C25: when the operation raises an error that is not on the allow-list, the
\* wrapper propagates it to the caller after that invocation, with no retry
\* and no sleep.
C25_OffListPropagates ==
    (calls # <<>> /\ calls[Len(calls)] \in OffListErrors) =>
        /\ rpc = "raised"
        /\ rexc = calls[Len(calls)]
        /\ \A i \in 1..(Len(calls) - 1) : calls[i] \notin OffListErrors
        /\ Len(sleeps) = Len(calls) - 1

\* C25 witness: with limit 2 the first invocation raised the ConnectionError
\* of requests, which the wrapper raised at once, without a sleep.
C25_Witness ==
    /\ rpc = "raised" /\ retry_limit = 2
    /\ calls = <<"requests.ConnectionError">>
    /\ rexc = "requests.ConnectionError" /\ sleeps = <<>>

\* base to the power n
RECURSIVE Power(_, _)
Power(base, n) == IF n = 0 THEN 1 ELSE base * Power(base, n - 1)

\* C28: with jitter disabled the wrapper sleeps initial_delay before the
\* first retry and multiplies the delay by exponential_base before each later
\* one: initial_delay, initial_delay * base, initial_delay * base^2, ...
C28_BackoffFromInitialDelay ==
    ~jitter =>
        \A i \in 1..Len(sleeps) :
            sleeps[i] = initial_delay * Power(exponential_base, i - 1)

-----------------------------------------------------------------------------
(* Claims about the result cache, checked under SpecCache.                  *)

\* the cache file a call found
FileBefore(k) == memo_calls[k].found

\* between call i and call j nothing but the calls touched the cache file:
\* each call found the file as the call before it left it
FileKept(i, j) ==
    \A k \in (i + 1)..j : memo_calls[k].found = memo_calls[k - 1].file

\* a call that went through the cache and whose invocation returned
MissReturned(c) ==
    c.cache_enabled /\ c.invoked /\ c.returned.type # "raised"

\* C21: after a miss on which the operation returned v, a repeated call with
\* the same arguments inside the expiry window (the cache not cleared in
\* between) returns a value equal to v and does not invoke the operation
\* again.
C21_RepeatServed ==
    \A i, j \in 1..Len(memo_calls) :
        ( /\ i < j
          /\ MissReturned(memo_calls[i])
          /\ FileKept(i, j)
          /\ memo_calls[j].cache_enabled
          /\ AgeDays(memo_calls[i].at, memo_calls[j].at) < ExpireAfterDays(wrapped) )
        => /\ ~memo_calls[j].invoked
           /\ memo_calls[j].returned = memo_calls[i].returned

\* what a value holds, whatever sequence type carries it
SameContent(a, b) ==
    /\ a.text = b.text
    /\ a.items = b.items
    /\ (a.type = b.type \/ {a.type, b.type} = {"tuple", "list"})

\* C26: an entry is served only while its age in whole days is below
\* expire_after_days; from then on the next call invokes the operation and
\* puts the new result and a fresh timestamp in the entry's place.
C26_ExpiryHonoured ==
    \A k \in 1..Len(memo_calls) :
        LET c == memo_calls[k]
            before == FileBefore(k)
            age == AgeDays(before.timestamp, c.at)
        IN  /\ ~c.invoked =>
                before.state = "entry" /\ age < ExpireAfterDays(wrapped)
            /\ ( /\ c.cache_enabled
                 /\ before.state = "entry"
                 /\ age >= ExpireAfterDays(wrapped) )
               => /\ c.invoked
                  /\ c.returned.type # "raised" =>
                        /\ c.file.state = "entry"
                        /\ c.file.timestamp = c.at
                        /\ SameContent(c.file.result, c.returned)

\* C27: on a client constructed with cache_enabled=False, every call of
\* find_snapshot_for_date and get_snapshot_content invokes the operation and
\* the cache stays as it was.
C27_DisabledClientBypasses ==
    ( /\ client.cache_enabled = FALSE
      /\ wrapped \in {"find_snapshot_for_date", "get_snapshot_content"} )
    => /\ cache_file = NoFile
       /\ \A k \in 1..Len(memo_calls) : memo_calls[k].invoked

\* None, or a sequence of None
IsAbsent(v) ==
    \/ v = PyNone
    \/ /\ v.type \in {"tuple", "list"}
       /\ Len(v.items) > 0
       /\ \A k \in 1..Len(v.items) : v.items[k] = PyNone

\* C29: after find_snapshot_for_date or get_snapshot_content returned the
\* absent result, a repeated call with the same arguments less than 90 days
\* later (the cache not cleared in between) returns the absent result and
\* the operation is not invoked.
C29_AbsentMemoized ==
    wrapped \in {"find_snapshot_for_date", "get_snapshot_content"} =>
        \A i, j \in 1..Len(memo_calls) :
            ( /\ i < j
              /\ MissReturned(memo_calls[i])
              /\ IsAbsent(memo_calls[i].returned)
              /\ FileKept(i, j)
              /\ memo_calls[j].cache_enabled
              /\ AgeDays(memo_calls[i].at, memo_calls[j].at) < 90 )
            => /\ ~memo_calls[j].invoked
               /\ IsAbsent(memo_calls[j].returned)

\* a find call served the absent result 89 days after it was stored
C29_Witness ==
    /\ wrapped = "find_snapshot_for_date"
    /\ Len(memo_calls) >= 2
    /\ MissReturned(memo_calls[1])
    /\ memo_calls[1].returned = AbsentTuple
    /\ FileKept(1, 2)
    /\ memo_calls[2].cache_enabled
    /\ AgeDays(memo_calls[1].at, memo_calls[2].at) = 89
    /\ ~memo_calls[2].invoked
    /\ IsAbsent(memo_calls[2].returned)

====
